---------------------------- MODULE Spec2Model ----------------------------
(***************************************************************************)
(* Model of the `store` command line tool (src/src/main.rs): one           *)
(* invocation parses its arguments, normalizes the data tokens             *)
(* (parse_data_input), sends one HTTP POST and maps the response to a      *)
(* printed message and an exit code.                                       *)
(*                                                                         *)
(* Text is a sequence of symbols.  The structural symbols are the single   *)
(* characters  "  =  {  }  :  ,  and the digits; every other symbol is an  *)
(* atomic piece of text that holds none of them ("a", "null", "detail",    *)
(* "oops", a fixed message, ...).  The empty text is <<>>.                 *)
(***************************************************************************)
EXTENDS Integers, Sequences, FiniteSets, TLC

VARIABLES
    pc,         \* position of the invocation: "main", "run", "send", "status", "match", "exit"
    data,       \* Args.data: the data tokens of the command line
    clap,       \* outcome of Args::try_parse(): "unparsed", "Ok" or a clap error kind
    payload,    \* the Payload built by run, NoValue before
    requests,   \* number of times the POST was sent
    response,   \* what send() returned: NoValue, or [status |-> code]
    text,       \* what response.text() returned: NoValue, [ok, body] or [ok, error]
    runResult,  \* what run returned: NoValue, [tag |-> "Ok"] or [tag |-> "Err", msg, causes]
    stdout,     \* lines printed to standard output
    stderr,     \* lines printed to standard error
    exit        \* the process exit code, -1 while running

vars == <<pc, data, clap, payload, requests, response, text, runResult, stdout, stderr, exit>>

NoValue == [tag |-> "none"]

\* ------------------------------------------------------------------ bounds

\* Largest number of data tokens on the command line.
MaxTokens == 2
\* Largest total number of symbols over all data tokens, normalizer alone.
MaxChars == 5
\* Largest total number of symbols over all data tokens, whole invocation.
RunMaxChars == 3
\* The POST counter stops counting here (no run of the code gets near it).
MaxRequests == 3

\* ------------------------------------------------------------------ text

Quote == "\""
Eq == "="
Digits == {"1", "5"}
DigitVal(c) == IF c = "1" THEN 1 ELSE 5

\* Symbols the data tokens are drawn from.
TokChars == {Quote, Eq, "1", "a", "null"}

\* Index of the first occurrence of symbol c in s at or after i; 0 when none.
RECURSIVE find(_, _, _)
find(s, c, i) ==
    IF i > Len(s) THEN 0
    ELSE IF s[i] = c THEN i
    ELSE find(s, c, i + 1)

\* ------------------------------------------------------------------ serde_json

JNull == [t |-> "null", s |-> <<>>, n |-> 0]
JString(s) == [t |-> "string", s |-> s, n |-> 0]
JNumber(n) == [t |-> "number", s |-> <<>>, n |-> n]
JObject(m) == [t |-> "object", m |-> m]

ParseFail == [ok |-> FALSE]
Parsed(v, next) == [ok |-> TRUE, val |-> v, next |-> next]

\* A JSON string starting at s[i]: a quote, text without quotes, a quote.
ParseStringAt(s, i) ==
    IF i > Len(s) \/ s[i] # Quote THEN ParseFail
    ELSE LET j == find(s, Quote, i + 1)
         IN  IF j = 0 THEN ParseFail
             ELSE Parsed(JString(SubSeq(s, i + 1, j - 1)), j + 1)

\* A JSON number starting at s[i]: a run of digits, read in base ten.
RECURSIVE ParseDigits(_, _, _)
ParseDigits(s, i, acc) ==
    IF i <= Len(s) /\ s[i] \in Digits
    THEN ParseDigits(s, i + 1, 10 * acc + DigitVal(s[i]))
    ELSE Parsed(JNumber(acc), i)

\* A JSON scalar starting at s[i].
ParseValueAt(s, i) ==
    IF i > Len(s) THEN ParseFail
    ELSE IF s[i] = Quote THEN ParseStringAt(s, i)
    ELSE IF s[i] \in Digits THEN ParseDigits(s, i, 0)
    ELSE IF s[i] = "null" THEN Parsed(JNull, i + 1)
    ELSE ParseFail

\* serde_json::from_str::<Value>: one value, and nothing after it.
from_str_Value(s) ==
    LET r == ParseValueAt(s, 1)
    IN  IF r.ok /\ r.next = Len(s) + 1 THEN [ok |-> TRUE, val |-> r.val]
        ELSE ParseFail

\* ------------------------------------------------------------------ parse_data_input

Ok(v) == [tag |-> "Ok", val |-> v]
Err(msg, causes) == [tag |-> "Err", msg |-> msg, causes |-> causes]

\* str::split_once('='): the text before and after the first '='.
split_once(pair) ==
    LET i == find(pair, Eq, 1)
    IN  IF i = 0 THEN [found |-> FALSE]
        ELSE [found |-> TRUE,
              key   |-> SubSeq(pair, 1, i - 1),
              value |-> SubSeq(pair, i + 1, Len(pair))]

\* The error of a token without '='.
InvalidPair(pair) ==
    <<"Invalid key=value pair: '">> \o pair \o <<"'. Expected format: key=value">>

\* The value half: parsed as JSON when it parses, else a plain string.
json_value(value) ==
    IF from_str_Value(value).ok THEN from_str_Value(value).val
    ELSE JString(value)

\* HashMap::insert: the new value replaces an old one under the same key.
insert_keep_first(map, key, v) ==
    [k \in DOMAIN map \cup {key} |-> IF k \in DOMAIN map THEN map[k] ELSE v]

insert(map, key, v) ==
    [k \in DOMAIN map \cup {key} |-> IF k = key THEN v ELSE map[k]]

EmptyMap == [k \in {} |-> JNull]

\* The loop over the tokens, from token i on, with the map built so far.
RECURSIVE key_value_pairs_skip(_, _, _)
key_value_pairs_skip(inputs, i, map) ==
    IF i > Len(inputs) THEN Ok(JObject(map))
    ELSE LET kv == split_once(inputs[i])
         IN  IF ~kv.found THEN key_value_pairs_skip(inputs, i + 1, map)
             ELSE key_value_pairs_skip(inputs, i + 1,
                                       insert(map, kv.key, json_value(kv.value)))

RECURSIVE key_value_pairs(_, _, _)
key_value_pairs(inputs, i, map) ==
    IF i > Len(inputs) THEN Ok(JObject(map))
    ELSE LET kv == split_once(inputs[i])
         IN  IF ~kv.found THEN Err(InvalidPair(inputs[i]), <<>>)
             ELSE key_value_pairs(inputs, i + 1,
                                  insert(map, kv.key, json_value(kv.value)))

parse_data_input_pairs_only(inputs) ==
    key_value_pairs(inputs, 1, EmptyMap)

parse_data_input(inputs) ==
    IF Len(inputs) = 1 /\ from_str_Value(inputs[1]).ok
    THEN Ok(from_str_Value(inputs[1]).val)
    ELSE key_value_pairs(inputs, 1, EmptyMap)


\* ------------------------------------------------------------------ ApiError

None == [some |-> FALSE]
Some(s) == [some |-> TRUE, v |-> s]

\* Option::or and Option::unwrap_or.
or(a, b) == IF a.some THEN a ELSE b
unwrap_or(a, default) == IF a.some THEN a.v ELSE default

\* An Option<String> field from a JSON value: null is None, a string is Some.
OptionOf(v) == IF v.t = "null" THEN None ELSE Some(v.s)

DetailField == <<"detail">>
MessageField == <<"message">>

\* The members of an object from s[i] on: "name" : value, separated by commas and
\* closed by the brace that ends the text.  detail and message take a string or
\* null and may appear once; a member of any other name is read and ignored.
RECURSIVE ParseMembers(_, _, _, _, _)
ParseMembers(s, i, detail, message, seen) ==
    LET k == ParseStringAt(s, i)
    IN  IF ~k.ok THEN ParseFail
        ELSE IF k.next > Len(s) \/ s[k.next] # ":" THEN ParseFail
        ELSE LET name  == k.val.s
                 v     == ParseValueAt(s, k.next + 1)
                 known == name \in {DetailField, MessageField}
             IN  IF ~v.ok THEN ParseFail
                 ELSE IF known /\ name \in seen THEN ParseFail
                 ELSE IF known /\ v.val.t = "number" THEN ParseFail
                 ELSE IF v.next > Len(s) THEN ParseFail
                 ELSE LET d == IF name = DetailField THEN OptionOf(v.val) ELSE detail
                          m == IF name = MessageField THEN OptionOf(v.val) ELSE message
                      IN  IF s[v.next] = ","
                          THEN ParseMembers(s, v.next + 1, d, m, seen \cup {name})
                          ELSE IF s[v.next] = "}" /\ v.next = Len(s)
                          THEN [ok |-> TRUE, detail |-> d, message |-> m]
                          ELSE ParseFail

\* serde_json::from_str::<ApiError>: an object; a field left out is None.
from_str_ApiError(s) ==
    IF Len(s) < 2 \/ s[1] # "{" THEN ParseFail
    ELSE IF Len(s) = 2 /\ s[2] = "}" THEN [ok |-> TRUE, detail |-> None, message |-> None]
    ELSE ParseMembers(s, 2, None, None, {})

\* ------------------------------------------------------------------ run: the response

UNAUTHORIZED == 401
FORBIDDEN == 403
NOT_FOUND == 404
BAD_REQUEST == 400
INTERNAL_SERVER_ERROR == 500

\* StatusCode::is_success: 200 to 299.
is_success_below_400(status) == 200 <= status /\ status < 400

is_success(status) == 200 <= status /\ status < 300

\* Result<String>::unwrap_or_default of response.text().
unwrap_or_error_text(t) == IF t.ok THEN t.body ELSE t.error

unwrap_or_default(t) == IF t.ok THEN t.body ELSE <<>>

\* The message taken from the error body.
error_msg_message_first(error_body) ==
    LET api_error == from_str_ApiError(error_body)
    IN  IF api_error.ok
        THEN unwrap_or(or(api_error.message, api_error.detail), error_body)
        ELSE error_body

error_msg(error_body) ==
    LET api_error == from_str_ApiError(error_body)
    IN  IF api_error.ok
        THEN unwrap_or(or(api_error.detail, api_error.message), error_body)
        ELSE error_body

\* The status-specific message.
friendly_status_with_body(status, msg) ==
    CASE status = UNAUTHORIZED -> <<"Unauthorized - check your API token">>
      [] status = FORBIDDEN -> <<"Forbidden - you don't have permission for this project">>
      [] status = NOT_FOUND -> <<"Not found - check the API URL and project slug">>
      [] status = BAD_REQUEST -> <<"Bad request - ">> \o msg
      [] status = INTERNAL_SERVER_ERROR -> <<"Server error - ">> \o msg
      [] OTHER -> <<"HTTP ", ToString(status), " - ">> \o msg

friendly_status(status, msg) ==
    CASE status = UNAUTHORIZED -> <<"Unauthorized - check your API token">>
      [] status = FORBIDDEN -> <<"Forbidden - you don't have permission for this project">>
      [] status = NOT_FOUND -> <<"Not found - check the API URL and project slug">>
      [] status = BAD_REQUEST -> <<"Bad request - ">> \o msg
      [] status = INTERNAL_SERVER_ERROR -> <<"Server error - please try again later">>
      [] OTHER -> <<"HTTP ", ToString(status), " - ">> \o msg

SuccessLine == <<"\\x1b[32mSuccess:\\x1b[0m Data stored successfully">>

\* Whether the body of a successful response is printed.
body_printed_unless_both(body) == body # <<>> \/ body # <<"null">>

body_printed(body) == body # <<>> /\ body # <<"null">>

\* ------------------------------------------------------------------ inputs

\* Every text of at most n symbols of TokChars.
RECURSIVE Texts(_)
Texts(n) ==
    IF n = 0 THEN {<<>>}
    ELSE LET shorter == Texts(n - 1)
         IN  shorter \cup {Append(w, c) : w \in {x \in shorter : Len(x) = n - 1}, c \in TokChars}

\* Every way to cut a text of n symbols into k + 1 tokens: k cut points in
\* 0..n, none before the one to its left.
RECURSIVE Cuts(_, _, _)
Cuts(k, lo, n) ==
    IF k = 0 THEN {<<>>}
    ELSE UNION {{<<c>> \o rest : rest \in Cuts(k - 1, c, n)} : c \in lo..n}

\* The tokens of text w cut at the points cuts, the first one starting after from.
RECURSIVE Split(_, _, _)
Split(w, cuts, from) ==
    IF cuts = <<>> THEN <<SubSeq(w, from + 1, Len(w))>>
    ELSE <<SubSeq(w, from + 1, Head(cuts))>> \o Split(w, Tail(cuts), Head(cuts))

\* The data tokens of a command line: at least one token (clap requires it), at
\* most maxTokens, with at most maxChars symbols in all.
IsInput(tokens, maxTokens, maxChars) ==
    \E t \in 1..maxTokens : \E w \in Texts(maxChars) : \E cuts \in Cuts(t - 1, 0, Len(w)) :
        tokens = Split(w, cuts, 0)

\* Outcomes of Args::try_parse other than Ok: clap's error kinds.
ClapErrors == {"DisplayHelp", "DisplayVersion", "MissingRequiredArgument", "UnknownArgument"}

\* clap::Error::exit_code: 0 for the help and version displays, 2 for a usage error.
exit_code(kind) == IF kind \in {"DisplayHelp", "DisplayVersion"} THEN 0 ELSE 2

\* Status codes a server may answer with.
StatusCodes == {200, 204, 304, 400, 401, 403, 404, 422, 500, 503}

Str(x) == <<Quote, x, Quote>>
Member(name, value) == Str(name) \o <<":">> \o value
Object1(m) == <<"{">> \o m \o <<"}">>
Object2(m1, m2) == <<"{">> \o m1 \o <<",">> \o m2 \o <<"}">>

\* Response bodies a server may answer with.
Bodies ==
    { <<>>,
      <<"null">>,
      <<"oops">>,
      Str("bad field"),
      <<"{", "}">>,
      Object1(Member("id", <<"5">>)),
      Object1(Member("detail", Str("bad field"))),
      Object1(Member("detail", <<"5">>)),
      Object1(Member("message", Str("try later"))),
      Object2(Member("detail", Str("bad field")), Member("message", Str("try later"))),
      Object2(Member("message", Str("try later")), Member("detail", Str("bad field"))),
      Object2(Member("detail", <<"null">>), Member("message", Str("try later"))),
      Object2(Member("detail", Str("bad field")), Member("detail", Str("bad field"))) }

\* What response.text() may return: the body, or a failure to read it.
TextOutcomes ==
    {[ok |-> TRUE, body |-> b] : b \in Bodies}
        \cup {[ok |-> FALSE, error |-> <<"error decoding response body">>]}

\* ------------------------------------------------------------------ the invocation

SUCCESS == 0
FAILURE == 1

Start(maxTokens, maxChars, at, parsed) ==
    /\ pc = at
    /\ IsInput(data, maxTokens, maxChars)
    /\ clap = parsed
    /\ payload = NoValue
    /\ requests = 0
    /\ response = NoValue
    /\ text = NoValue
    /\ runResult = NoValue
    /\ stdout = <<>>
    /\ stderr = <<>>
    /\ exit = -1

\* The process as it starts.
Init == Start(MaxTokens, RunMaxChars, "main", "unparsed")

\* main: Args::try_parse; on an error clap prints and main returns.
TryParse ==
    /\ pc = "main"
    /\ \E outcome \in {"Ok"} \cup ClapErrors :
        /\ clap' = outcome
        /\ IF outcome = "Ok"
           THEN /\ pc' = "run"
                /\ UNCHANGED <<stdout, stderr, exit>>
           ELSE /\ pc' = "exit"
                /\ IF exit_code(outcome) = 0
                   THEN /\ stdout' = Append(stdout, <<outcome>>)
                        /\ stderr' = stderr
                        /\ exit' = SUCCESS
                   ELSE /\ stderr' = Append(stderr, <<outcome>>)
                        /\ stdout' = stdout
                        /\ exit' = FAILURE
    /\ UNCHANGED <<data, payload, requests, response, text, runResult>>

\* run: parse_data_input with its context, then the Payload (args.project and
\* args.type are copied into it as they are and left out here).
Normalize ==
    /\ pc = "run"
    /\ LET r == parse_data_input(data)
       IN  IF r.tag = "Ok"
           THEN /\ payload' = [data |-> r.val]
                /\ pc' = "send"
                /\ UNCHANGED runResult
           ELSE /\ runResult' = Err(<<"Failed to parse data input">>, <<r.msg>>)
                /\ pc' = "match"
                /\ UNCHANGED payload
    /\ UNCHANGED <<data, clap, requests, response, text, stdout, stderr, exit>>

\* run: the POST is sent; it fails, or a response arrives with its status.
SendRetry ==
    /\ pc = "send"
    /\ requests < MaxRequests
    /\ requests' = requests + 1
    /\ \/ /\ pc' = "send"
          /\ UNCHANGED <<response, runResult>>
       \/ \E status \in StatusCodes :
            /\ response' = [tag |-> "response", status |-> status]
            /\ pc' = "status"
            /\ UNCHANGED runResult
    /\ UNCHANGED <<data, clap, payload, text, stdout, stderr, exit>>

Send ==
    /\ pc = "send"
    /\ requests < MaxRequests
    /\ requests' = requests + 1
    /\ \/ /\ runResult' = Err(<<"Failed to send request to API">>,
                              << <<"error sending request">> >>)
          /\ pc' = "match"
          /\ UNCHANGED response
       \/ \E status \in StatusCodes :
            /\ response' = [tag |-> "response", status |-> status]
            /\ pc' = "status"
            /\ UNCHANGED runResult
    /\ UNCHANGED <<data, clap, payload, text, stdout, stderr, exit>>

\* run: a 2xx response.
OnSuccess ==
    /\ pc = "status"
    /\ is_success(response.status)
    /\ \E t \in TextOutcomes :
        LET body == unwrap_or_default(t)
        IN  /\ text' = t
            /\ stdout' = stdout \o <<SuccessLine>>
                           \o (IF body_printed(body) THEN <<body>> ELSE <<>>)
    /\ runResult' = [tag |-> "Ok"]
    /\ pc' = "match"
    /\ UNCHANGED <<data, clap, payload, requests, response, stderr, exit>>

\* run: any other response.
OnFailure ==
    /\ pc = "status"
    /\ ~is_success(response.status)
    /\ \E t \in TextOutcomes :
        LET error_body == unwrap_or_default(t)
        IN  /\ text' = t
            /\ runResult' = Err(<<"API request failed: ">>
                                  \o friendly_status(response.status, error_msg(error_body)),
                                <<>>)
    /\ pc' = "match"
    /\ UNCHANGED <<data, clap, payload, requests, response, stdout, stderr, exit>>

\* main: the exit code for what run returned.
exit_of_always_success(result) == SUCCESS

exit_of(result) == IF result.tag = "Ok" THEN SUCCESS ELSE FAILURE

\* main: the error and its causes are printed, and the exit code returned.
MainMatch ==
    /\ pc = "match"
    /\ stderr' = IF runResult.tag = "Ok" THEN stderr
                 ELSE stderr \o << <<"\\x1b[31mError:\\x1b[0m ">> \o runResult.msg >>
                        \o [i \in 1..Len(runResult.causes) |->
                              <<"\\x1b[31m  Caused by:\\x1b[0m ">> \o runResult.causes[i]]
    /\ exit' = exit_of(runResult)
    /\ pc' = "exit"
    /\ UNCHANGED <<data, clap, payload, requests, response, text, runResult, stdout>>

Next ==
    \/ TryParse
    \/ Normalize
    \/ Send
    \/ OnSuccess
    \/ OnFailure
    \/ MainMatch

Spec == Init /\ [][Next]_vars

\* The normalizer alone: run has just been called with the data tokens.
InitParse == Start(MaxTokens, MaxChars, "run", "Ok")

NextParse == Normalize

SpecParse == InitParse /\ [][NextParse]_vars

\* ------------------------------------------------------------------ properties

\* parse_data_input has returned.
AfterNormalize == clap = "Ok" /\ pc \in {"send", "status", "match", "exit"}

\* run has returned.
AfterRun == clap = "Ok" /\ pc \in {"match", "exit"}

HasEq(tok) == \E i \in 1..Len(tok) : tok[i] = Eq
FirstEq(tok) == CHOOSE i \in 1..Len(tok) : tok[i] = Eq /\ \A j \in 1..(i - 1) : tok[j] # Eq
KeyText(tok) == SubSeq(tok, 1, FirstEq(tok) - 1)
ValueText(tok) == SubSeq(tok, FirstEq(tok) + 1, Len(tok))

\* The token is a quote, text without a quote, and a quote.
IsQuoted(tok) ==
    /\ Len(tok) >= 2
    /\ tok[1] = Quote
    /\ tok[Len(tok)] = Quote
    /\ \A i \in 2..(Len(tok) - 1) : tok[i] # Quote

\* The token is a run of the digit 1.
IsOnes(tok) == Len(tok) >= 1 /\ \A i \in 1..Len(tok) : tok[i] = "1"

SingleJson == Len(data) = 1 /\ from_str_Value(data[1]).ok
KeyValueMode == ~SingleJson
AllPairs == \A i \in 1..Len(data) : HasEq(data[i])

InputFormatError(r) == r.tag = "Err" /\ r.msg = <<"Failed to parse data input">>
TransportError(r) == r.tag = "Err" /\ r.msg = <<"Failed to send request to API">>
ApiRequestError(r) == r.tag = "Err" /\ Len(r.msg) >= 1 /\ r.msg[1] = "API request failed: "

Received == response # NoValue
Received2xx == Received /\ response.status \in 200..299
ReceivedNon2xx == Received /\ response.status \notin 200..299

Printed(line) == \E i \in 1..Len(stdout) : stdout[i] = line

\* C1: a single token that is valid JSON is returned as that JSON value and is
\* never read as a key=value pair, also when it holds an '=' (a quoted string).
C1_SingleJsonTokenIsItsValue ==
    (AfterNormalize /\ SingleJson) =>
        /\ payload # NoValue
        /\ payload.data.t # "object"
        /\ payload.data = from_str_Value(data[1]).val
        /\ IsQuoted(data[1]) =>
              payload.data = JString(SubSeq(data[1], 2, Len(data[1]) - 1))
        /\ IsOnes(data[1]) => payload.data.t = "number"
        /\ data[1] = <<"null">> => payload.data = JNull

C1_Witness ==
    /\ AfterNormalize
    /\ data = << <<Quote, "a", Eq, "1", Quote>> >>
    /\ payload # NoValue
    /\ payload.data = JString(<<"a", Eq, "1">>)

\* Index of the last token whose key is k.
LastWith(k) ==
    CHOOSE i \in 1..Len(data) :
        /\ KeyText(data[i]) = k
        /\ \A j \in (i + 1)..Len(data) : KeyText(data[j]) # k

\* C2: in key=value mode with an '=' in every token the result is an object whose
\* keys are the texts before each token's first '=', and the value under a key
\* comes from the last token with that key: the text after its first '=', as JSON
\* when that parses and as a plain string otherwise.
C2_PairsBuildObjectLastWins ==
    (AfterNormalize /\ KeyValueMode /\ AllPairs) =>
        /\ payload # NoValue
        /\ payload.data.t = "object"
        /\ DOMAIN payload.data.m = {KeyText(data[i]) : i \in 1..Len(data)}
        /\ \A k \in DOMAIN payload.data.m :
              LET v == ValueText(data[LastWith(k)])
              IN  payload.data.m[k] =
                     IF from_str_Value(v).ok THEN from_str_Value(v).val ELSE JString(v)
        /\ data = << <<"a", Eq, "a", Eq, "a">> >> =>
              payload.data.m[<<"a">>] = JString(<<"a", Eq, "a">>)

C2_Witness ==
    /\ AfterNormalize
    /\ data = << <<"a", Eq, "1">>, <<"a", Eq>> >>
    /\ payload # NoValue
    /\ payload.data.t = "object"
    /\ DOMAIN payload.data.m = {<<"a">>}
    /\ payload.data.m[<<"a">>] = JString(<<>>)

\* C3: in key=value mode a token without '=' makes parse_data_input fail with the
\* input format error, wherever the token stands and whatever the other tokens
\* are; no object is returned and the error names a token without '='.
C3_TokenWithoutEqFails ==
    (AfterNormalize /\ KeyValueMode /\ ~AllPairs) =>
        /\ payload = NoValue
        /\ pc \in {"match", "exit"}
        /\ InputFormatError(runResult)
        /\ \E i \in 1..Len(data) :
              /\ ~HasEq(data[i])
              /\ runResult.causes =
                    << <<"Invalid key=value pair: '">> \o data[i]
                          \o <<"'. Expected format: key=value">> >>

C3_Witness ==
    /\ AfterNormalize
    /\ data = << <<"a", Eq, "1">>, <<"1">> >>
    /\ payload = NoValue
    /\ InputFormatError(runResult)

\* The statuses whose message is fixed, and that message.
FixedStatuses == {401, 403, 404, 500}
FixedMessage(status) ==
    CASE status = 401 -> "Unauthorized - check your API token"
      [] status = 403 -> "Forbidden - you don't have permission for this project"
      [] status = 404 -> "Not found - check the API URL and project slug"
      [] status = 500 -> "Server error - please try again later"

ErrorLine(msg) == <<"\\x1b[31mError:\\x1b[0m ">> \o msg

\* C4: a 401, 403, 404 or 500 response is reported with the fixed message of its
\* status, the same for every response body; nothing of the body is reported.
C4_FixedMessageWhateverTheBody ==
    (AfterRun /\ Received /\ response.status \in FixedStatuses) =>
        /\ runResult = Err(<<"API request failed: ", FixedMessage(response.status)>>, <<>>)
        /\ pc = "exit" =>
              stderr = << ErrorLine(<<"API request failed: ", FixedMessage(response.status)>>) >>

C4_Witness ==
    /\ pc = "exit"
    /\ Received
    /\ response.status = 500
    /\ text = [ok |-> TRUE, body |-> Object1(Member("detail", Str("bad field")))]
    /\ stderr = << ErrorLine(<<"API request failed: ", "Server error - please try again later">>) >>

\* The body as run uses it: empty when it could not be read.
BodyUsed == IF text.ok THEN text.body ELSE <<>>

\* The message M of claim C5 for the body b.
ChosenMessage(b) ==
    LET p == from_str_ApiError(b)
    IN  IF ~p.ok THEN b
        ELSE IF p.detail.some THEN p.detail.v
        ELSE IF p.message.some THEN p.message.v
        ELSE b

StatusPrefix(status) ==
    IF status = 400 THEN <<"Bad request - ">> ELSE <<"HTTP ", ToString(status), " - ">>

BodyIs(b) == text.ok /\ text.body = b

\* C5: a non-2xx response with status 400, or with a status other than 401, 403,
\* 404 and 500, is reported as 'Bad request - M' or 'HTTP <code> - M', where M is
\* the detail of the parsed error body if present, else its message if present,
\* else the raw body; the raw body when it does not parse.  detail wins over message.
C5_MessageFromErrorBody ==
    (AfterRun /\ ReceivedNon2xx /\ response.status \notin FixedStatuses) =>
        /\ runResult.tag = "Err"
        /\ runResult.msg = <<"API request failed: ">> \o StatusPrefix(response.status)
                              \o ChosenMessage(BodyUsed)
        /\ (response.status = 400 /\ BodyIs(Object1(Member("detail", Str("bad field"))))) =>
              runResult.msg = <<"API request failed: ", "Bad request - ", "bad field">>
        /\ (response.status = 422 /\ BodyIs(<<"oops">>)) =>
              runResult.msg = <<"API request failed: ", "HTTP ", "422", " - ", "oops">>
        /\ (\/ BodyIs(Object2(Member("detail", Str("bad field")),
                              Member("message", Str("try later"))))
            \/ BodyIs(Object2(Member("message", Str("try later")),
                              Member("detail", Str("bad field"))))) =>
              runResult.msg = <<"API request failed: ">> \o StatusPrefix(response.status)
                                 \o <<"bad field">>
        /\ BodyIs(Object1(Member("message", Str("try later")))) =>
              runResult.msg = <<"API request failed: ">> \o StatusPrefix(response.status)
                                 \o <<"try later">>
        /\ BodyIs(<<"{", "}">>) =>
              runResult.msg = <<"API request failed: ">> \o StatusPrefix(response.status)
                                 \o <<"{", "}">>

C5_Witness ==
    /\ pc = "exit"
    /\ Received
    /\ response.status = 400
    /\ BodyIs(Object2(Member("message", Str("try later")), Member("detail", Str("bad field"))))
    /\ runResult.msg = <<"API request failed: ", "Bad request - ", "bad field">>

\* C6: the exit code is 0 exactly when the run ended in success (a 2xx response)
\* or in a help or version display; every failure ends with a non-zero exit code,
\* and no run prints the success line and exits non-zero.
C6_ExitCodeZeroIffSuccessOrHelp ==
    /\ pc = "exit" =>
          /\ exit \in {0, 1}
          /\ exit = 0 <=> \/ clap \in {"DisplayHelp", "DisplayVersion"}
                          \/ clap = "Ok" /\ Received2xx /\ runResult.tag = "Ok"
          /\ clap = "Ok" /\ runResult.tag = "Err" => exit # 0
    /\ Printed(SuccessLine) => exit \in {-1, 0}

C6_Witness ==
    /\ pc = "exit"
    /\ clap = "Ok"
    /\ TransportError(runResult)
    /\ exit = 1

\* C7: one invocation sends the POST exactly once when argument parsing and
\* normalization both succeed and not at all when either fails; after a transport
\* failure or a non-2xx response no second request is sent.
C7_OneRequestOrNone ==
    /\ requests <= 1
    /\ pc \in {"run", "main"} => requests = 0
    /\ pc = "exit" =>
          requests = IF clap = "Ok" /\ parse_data_input(data).tag = "Ok" THEN 1 ELSE 0
    /\ (AfterRun /\ InputFormatError(runResult)) => requests = 0
    /\ (AfterRun /\ (TransportError(runResult) \/ ReceivedNon2xx)) => requests = 1

C7_Witness ==
    /\ pc = "exit"
    /\ clap = "Ok"
    /\ TransportError(runResult)
    /\ requests = 1
    /\ exit = FAILURE

\* C8: a failed run reports exactly one error kind, fixed by the stage reached:
\* the input format error exactly when normalization failed (nothing sent), the
\* transport error exactly when the request was sent and no response came, the
\* API error exactly when a non-2xx response came; a 2xx response yields no error.
C8_ErrorKindByStage ==
    AfterRun =>
        /\ InputFormatError(runResult) <=> (payload = NoValue /\ requests = 0)
        /\ TransportError(runResult) <=> (payload # NoValue /\ requests = 1 /\ ~Received)
        /\ ApiRequestError(runResult) <=> ReceivedNon2xx
        /\ runResult.tag = "Ok" <=> Received2xx
        /\ runResult.tag = "Err" =>
              Cardinality({k \in {"input", "transport", "api"} :
                  \/ k = "input" /\ InputFormatError(runResult)
                  \/ k = "transport" /\ TransportError(runResult)
                  \/ k = "api" /\ ApiRequestError(runResult)}) = 1

C8_Witness ==
    /\ pc = "exit"
    /\ Received
    /\ response.status = 304
    /\ ApiRequestError(runResult)
    /\ ~TransportError(runResult)

\* C9: on a 2xx response the success line is printed, followed by the body exactly
\* when the body is not empty and not the text "null"; the success line is never
\* printed on a non-2xx response, a transport failure or an input format error.
C9_SuccessLineAndBody ==
    /\ Printed(SuccessLine) => Received2xx
    /\ AfterRun =>
          stdout = IF Received2xx
                   THEN <<SuccessLine>>
                           \o (IF BodyUsed # <<>> /\ BodyUsed # <<"null">>
                               THEN <<BodyUsed>> ELSE <<>>)
                   ELSE <<>>
    /\ (AfterRun /\ Received2xx /\ BodyIs(Object1(Member("id", <<"5">>)))) =>
          stdout = <<SuccessLine, <<"{", Quote, "id", Quote, ":", "5", "}">> >>

C9_Witness ==
    /\ pc = "exit"
    /\ Received
    /\ response.status = 200
    /\ BodyIs(<<"null">>)
    /\ stdout = <<SuccessLine>>

\* C10: once a status has been received the outcome is decided by the status; a
\* body that cannot be read is taken as the empty text and is never a transport
\* error: a 2xx response then ends in success with exit code 0 and no body line,
\* a non-2xx response in the API error with an empty message part.
C10_UnreadableBodyIsEmpty ==
    (AfterRun /\ text # NoValue /\ ~text.ok) =>
        /\ ~TransportError(runResult)
        /\ Received2xx =>
              /\ runResult.tag = "Ok"
              /\ stdout = <<SuccessLine>>
              /\ pc = "exit" => exit = 0
        /\ ReceivedNon2xx =>
              /\ ApiRequestError(runResult)
              /\ pc = "exit" => exit # 0
              /\ response.status \notin FixedStatuses =>
                    runResult.msg = <<"API request failed: ">> \o StatusPrefix(response.status)
              /\ response.status = 400 =>
                    runResult.msg = <<"API request failed: ", "Bad request - ">>

C10_Witness ==
    /\ pc = "exit"
    /\ Received
    /\ response.status = 400
    /\ text # NoValue
    /\ ~text.ok
    /\ runResult.msg = <<"API request failed: ", "Bad request - ">>
    /\ exit = FAILURE

=============================================================================
